---- MODULE Spec2Model ----
(***************************************************************************)
(* Model of Segmentator/batch_segmentator.py: the batch driver that runs   *)
(* the external segmentator over every scene directory, resolves the       *)
(* produced *.segs.json candidate, validates it and copies it to the       *)
(* canonical output name, serially or through a ProcessPoolExecutor.       *)
(***************************************************************************)
EXTENDS Integers, Sequences, FiniteSets, TLC

\* ------------------------------------------------------------------ bounds
MaxWorkers == 2         \* largest --num_workers value explored
MaxTime == 2            \* st_mtime values 1..MaxTime
MaxStale == 1           \* candidate files already in a scene directory at start
MaxRuns == 2            \* batch runs in the re-run specification

\* the scene directories that may exist under input_dir: scene1, scene2
Scenes == {1, 2, 3}
TwoScenes == {1, 2}
Times == 1..MaxTime

\* ------------------------------------------------------------- file names
\* A name is a sequence of characters; words that contain neither a digit
\* nor a dot ("scene", "_vh_clean_", "segs", "json") are kept as one element.
DigitChar(n) == <<"0", "1", "2", "3", "4", "5", "6", "7", "8", "9">>[n + 1]

RECURSIVE IntDigits(_)
IntDigits(n) == IF n < 10 THEN <<DigitChar(n)>>
                ELSE IntDigits(n \div 10) \o <<DigitChar(n % 10)>>

Pow10(e) == <<1, 10, 100, 1000, 10000, 100000, 1000000>>[e + 1]

\* f"{kthresh:.6f}": the threshold is given in units of 10^-7, rounded to
\* six decimals and printed with six zero-padded fraction digits.
Format6(k7) ==
    LET micro == (k7 + 5) \div 10
        frac  == micro % 1000000
    IN  IntDigits(micro \div 1000000) \o <<".">> \o
        [i \in 1..6 |-> DigitChar((frac \div Pow10(6 - i)) % 10)]

\* Python's `sub in str`
Contains(sub, str) ==
    \E i \in 0..(Len(str) - Len(sub)) : SubSeq(str, i + 1, i + Len(sub)) = sub

SceneName(s) == <<"scene">> \o IntDigits(s)

Stem(scene_name) == scene_name \o <<"_vh_clean_", "2">>
SegsSuffix == <<".", "segs", ".", "json">>

\* pattern = f"{scene_name}_vh_clean_2.*.segs.json"
GlobMatch(scene_name, name) ==
    LET prefix == Stem(scene_name) \o <<".">>
    IN  /\ Len(name) >= Len(prefix) + Len(SegsSuffix)
        /\ SubSeq(name, 1, Len(prefix)) = prefix
        /\ SubSeq(name, Len(name) - Len(SegsSuffix) + 1, Len(name)) = SegsSuffix

\* output_filename = f"{scene_name}_vh_clean_2.0.010000.segs.json"
\* faulty variant: the output name is built from a configured threshold
OutputFilenameOfThreshold(scene_name) ==
    Stem(scene_name) \o <<".">> \o Format6(19999996) \o SegsSuffix

OutputFilename(scene_name) ==
    Stem(scene_name) \o <<".", "0", ".", "0", "1", "0", "0", "0", "0">> \o SegsSuffix

\* faulty variant: the filter tests another literal than the one process_scene writes
SkipFilenameOtherLiteral(scene_name) ==
    Stem(scene_name) \o <<".", "0", ".", "0", "0", "5", "0", "0", "0">> \o SegsSuffix

\* the same literal in the skip-existing filter of main
SkipFilename(scene_name) ==
    Stem(scene_name) \o <<".", "0", ".", "0", "1", "0", "0", "0", "0">> \o SegsSuffix

\* thresholds explored, in units of 10^-7: 0.01 and 1.9999996
Thresholds == {100000, 19999996}

\* what the segmentator may put between "_vh_clean_2." and ".segs.json"
Middles == { <<"0", ".", "0", "1", "0", "0", "0", "0">>,
             <<"0", ".", "0", "0", "5", "0", "0", "0">>,
             <<"0", "0", "0", "0", "0", "0">> }

CandName(s, m) == Stem(SceneName(s)) \o <<".">> \o m \o SegsSuffix
\* a file the glob pattern does not match: <scene>_vh_clean_2.segs.json
OtherName(s) == Stem(SceneName(s)) \o <<".", "segs", ".", "json">>

WritableNames(s) == {CandName(s, m) : m \in Middles} \cup {OtherName(s)}

\* parsed JSON documents: an object with / without the key, an array that
\* holds the string "segIndices", a scalar (number, null, true)
DocKinds == {"ObjWith", "ObjWithout", "ArrWith", "Scalar"}

FileRecs(s) == [name : WritableNames(s), mtime : Times, doc : DocKinds]

\* candidate files already lying in a scene directory when the batch starts
\* and files one invocation of the segmentator may write there; one batch
\* shape is explored with the full variety (rich), the others with one
\* well-formed and one malformed artifact per scene
StaleFiles(s, rich) ==
    IF rich THEN [name : WritableNames(s), mtime : Times, doc : {"ObjWith"}]
    ELSE {}

BinaryWrites(s, rich) ==
    IF rich THEN FileRecs(s)
    ELSE [name : {CandName(s, <<"0", ".", "0", "1", "0", "0", "0", "0">>)},
          mtime : {1}, doc : {"ObjWith", "ObjWithout"}]

UniqueNames(d) == \A f, g \in d : f.name = g.name => f = g

StaleDirs(s, rich) ==
    {d \in SUBSET StaleFiles(s, rich) : Cardinality(d) <= MaxStale /\ UniqueNames(d)}

\* the segmentator writes file f into directory d, replacing a same-named file
WriteFile(d, f) == {g \in d : g.name # f.name} \cup {f}

\* every order in which a directory listing may return the files of S
Listings(S) ==
    {q \in [1..Cardinality(S) -> S] : \A i, j \in 1..Cardinality(S) : i # j => q[i] # q[j]}

\* --------------------------------------------------------- process_scene
NoName == <<>>

Returned(s, ok, kind, detail, chosen, wrote) ==
    [type |-> "return", scene |-> s, ok |-> ok, kind |-> kind, detail |-> detail,
     chosen |-> chosen, wrote |-> wrote]

Raised(s, kind) ==
    [type |-> "raise", scene |-> s, ok |-> FALSE, kind |-> kind, detail |-> "",
     chosen |-> NoName, wrote |-> {}]

NoResult == [type |-> "none", scene |-> 0, ok |-> FALSE, kind |-> "none", detail |-> "",
             chosen |-> NoName, wrote |-> {}]

\* the tuple process_scene hands back, or the exception that leaves it
Outcome(r) == [type |-> r.type, scene |-> r.scene, ok |-> r.ok, kind |-> r.kind,
               detail |-> r.detail]

\* except Exception as e: return False, scene_name, f"Unexpected error: {str(e)}"
Unexpected(s, step, chosen, wrote) ==
    Returned(s, FALSE, "UnexpectedException", step, chosen, wrote)

\* candidates = list(ply_file.parent.glob(pattern)), in listing order
GlobCandidates(s, listing) ==
    SelectSeq(listing, LAMBDA f : GlobMatch(SceneName(s), f.name))

\* matching = [c for c in candidates if kthresh_str in c.name]
Matching(cands, k7) ==
    LET kthresh_str == Format6(k7)
    IN  SelectSeq(cands, LAMBDA c : Contains(kthresh_str, c.name))

\* faulty variant: min in place of max
MinByMtime(cands) ==
    cands[CHOOSE i \in 1..Len(cands) :
            /\ \A j \in 1..Len(cands) : cands[j].mtime >= cands[i].mtime
            /\ \A j \in 1..(i - 1) : cands[j].mtime > cands[i].mtime]

\* max(candidates, key=lambda p: p.stat().st_mtime): the first maximal element
MaxByMtime(cands) ==
    cands[CHOOSE i \in 1..Len(cands) :
            /\ \A j \in 1..Len(cands) : cands[j].mtime <= cands[i].mtime
            /\ \A j \in 1..(i - 1) : cands[j].mtime < cands[i].mtime]

\* faulty variant: the newest candidate is taken without looking at the names
SelectCandidateLatest(cands, k7) == MaxByMtime(cands)

SelectCandidate(cands, k7) ==
    LET matching == Matching(cands, k7)
    IN  IF matching # <<>> THEN matching[1] ELSE MaxByMtime(cands)

\* "segIndices" in seg_data, for the documents on which `in` is defined
HasSegIndices(doc) == doc \in {"ObjWith", "ArrWith"}

\* steps of the pipeline at which an exception may be raised
Faults == {"none", "glob", "stat", "parse", "mkdir", "copy", "copystat"}

\* process_scene from the return of subprocess.run (exit status 0) onwards;
\* listing is the scene directory in listing order, fault the step that raises
ResolveAndCopy(s, listing, k7, fault) ==
    LET cands == GlobCandidates(s, listing)
        seg   == SelectCandidate(cands, k7)
        out   == OutputFilename(SceneName(s))
    IN  IF fault = "glob" THEN Unexpected(s, "glob", NoName, {})
        ELSE IF cands = <<>> THEN Returned(s, FALSE, "NoOutputGenerated", "", NoName, {})
        ELSE IF fault = "stat" /\ Matching(cands, k7) = <<>>
             THEN Unexpected(s, "stat", NoName, {})
        ELSE IF fault = "parse" THEN Unexpected(s, "parse", seg.name, {})
        ELSE IF seg.doc = "Scalar" THEN Unexpected(s, "validate", seg.name, {})
        ELSE IF ~HasSegIndices(seg.doc)
             THEN Returned(s, FALSE, "InvalidOutputFormat", "", seg.name, {})
        ELSE IF fault = "mkdir" THEN Unexpected(s, "mkdir", seg.name, {})
        ELSE IF fault = "copy" THEN Unexpected(s, "copy", seg.name, {})
        ELSE IF fault = "copystat" THEN Unexpected(s, "copystat", seg.name, {out})
        ELSE Returned(s, TRUE, "Success", "", seg.name, {out})

\* ------------------------------------------------------------------ state
VARIABLES
    num_workers,    \* args.num_workers
    kthresh,        \* args.kthresh, in units of 10^-7
    skip_existing,  \* args.skip_existing
    input_ok,       \* input_dir.exists()
    bin,            \* the segmentator path: "missing", "notfile", "noexec", "ok"
    entries,        \* the entries of input_dir: [name, isdir]
    ply,            \* per scene, <scene>_vh_clean_2.ply: "present", "absent", "denied"
    dir,            \* per scene, the *.json files of the scene directory
    outdir,         \* the file names present in output_dir
    pc,             \* position of main
    scene_dirs,     \* the list main iterates over
    idx,            \* position of the serial loop in scene_dirs
    success_count,
    fail_count,
    failed_scenes,
    exit_status,
    task,           \* per scene, the state of its task / future: "none",
                    \* "pending", "running" or "hung" (in subprocess.run),
                    \* "returning", "done", "collected", "aborted"
    ret,            \* per scene, what process_scene returned or raised
    fut,            \* per scene, what future.result() returns or raises
    broken,         \* the process pool is broken (a worker process died)
    invoked,        \* per scene, calls of subprocess.run in this run
    tally,          \* per scene, outcomes main has counted for it in this run
    status,         \* per scene, the outcome main has counted for it
    chosen,         \* per scene, the name of seg_file
    wrote,          \* per scene, the output_dir names its task has written
    run,            \* number of the batch run
    first,          \* per scene, the outcome counted in the previous run
    proc            \* per scene, returncode and stderr of its ended segmentator

vars == <<num_workers, kthresh, skip_existing, input_ok, bin, entries, ply, dir,
          outdir, pc, scene_dirs, idx, success_count, fail_count, failed_scenes,
          exit_status, task, ret, fut, broken, invoked, tally, status, chosen,
          wrote, run, first, proc>>

config == <<num_workers, kthresh, skip_existing, input_ok, bin, entries, ply>>

NoStatus == [ok |-> FALSE, kind |-> "none"]

\* no segmentator process of the scene has ended
NoProcess == [returncode |-> -1, stderr |-> ""]

\* entries of input_dir that are no scene directory: a directory with another
\* name and a regular file whose name starts with "scene"
ExtraEntries == { [name |-> <<"misc">>, isdir |-> TRUE],
                  [name |-> <<"scene", "s", ".", "txt">>, isdir |-> FALSE] }

SceneEntry(s) == [name |-> SceneName(s), isdir |-> TRUE]

SceneOf(name) == CHOOSE s \in Scenes : SceneName(s) = name

\* d.name.startswith("scene")
StartsWithScene(name) == Len(name) >= 1 /\ name[1] = "scene"

\* the batch explored with the full variety of candidate files: scene 1 alone,
\* an executable segmentator, no skip-existing filter
Rich ==
    /\ {e \in entries : e.isdir /\ StartsWithScene(e.name)} = {SceneEntry(1)}
    /\ bin = "ok"
    /\ ~skip_existing

\* the start of main on one of the sets Ds of scene directories
Start(Ds) ==
    /\ num_workers \in 1..MaxWorkers
    /\ kthresh \in Thresholds
    /\ skip_existing \in BOOLEAN
    /\ input_ok \in BOOLEAN
    /\ bin \in {"missing", "notfile", "noexec", "ok"}
    /\ \E D \in Ds :
          /\ entries = {SceneEntry(s) : s \in D} \cup ExtraEntries
          /\ \E p \in [D -> {"present", "absent", "denied"}] :
                ply = [s \in Scenes |-> IF s \in D THEN p[s] ELSE "absent"]
          /\ \E d \in StaleDirs(1, Rich) :
                dir = [s \in Scenes |-> IF s = 1 THEN d ELSE {}]
          \* outputs already lying in output_dir are explored for the runs
          \* that read it, those with skip_existing
          /\ outdir \in (IF skip_existing
                          THEN SUBSET {OutputFilename(SceneName(s)) : s \in D}
                          ELSE {{}})
    \* a run that stops at the configuration checks is explored once per check
    /\ (~input_ok \/ bin \in {"missing", "notfile"}) =>
          /\ (~input_ok => bin = "ok")
          /\ num_workers = 1 /\ kthresh = 100000 /\ ~skip_existing
          /\ entries = {SceneEntry(s) : s \in TwoScenes} \cup ExtraEntries
          /\ \A s \in TwoScenes : ply[s] = "present" /\ dir[s] = {}
          /\ outdir = {}
    /\ pc = "start"
    /\ scene_dirs = <<>>
    /\ idx = 0
    /\ success_count = 0
    /\ fail_count = 0
    /\ failed_scenes = <<>>
    /\ exit_status = -1
    /\ task = [s \in Scenes |-> "none"]
    /\ ret = [s \in Scenes |-> Outcome(NoResult)]
    /\ fut = [s \in Scenes |-> Outcome(NoResult)]
    /\ broken = FALSE
    /\ invoked = [s \in Scenes |-> 0]
    /\ tally = [s \in Scenes |-> 0]
    /\ status = [s \in Scenes |-> NoStatus]
    /\ chosen = [s \in Scenes |-> NoName]
    /\ wrote = [s \in Scenes |-> {}]
    /\ run = 1
    /\ first = [s \in Scenes |-> NoStatus]
    /\ proc = [s \in Scenes |-> NoProcess]

\* batches over at most two scene directories
Init == Start(SUBSET TwoScenes)

\* faulty variant: the existence check of the .ply file is left out
CheckAndSpawnUnchecked(s, p, launched) ==
    IF p = "denied" THEN Raised(s, "PermissionError")
    ELSE IF ~launched THEN Unexpected(s, "spawn", NoName, {})
    ELSE NoResult

\* ------------------------------------------------ process_scene, first part
\* the existence check of the .ply file and the launch of the segmentator;
\* a result of type "none" means the call is blocked in subprocess.run
CheckAndSpawn(s, p, launched) ==
    IF p = "denied" THEN Raised(s, "PermissionError")
    ELSE IF p = "absent" THEN Returned(s, FALSE, "MissingInput", "", NoName, {})
    ELSE IF ~launched THEN Unexpected(s, "spawn", NoName, {})
    ELSE NoResult

\* the call has reached subprocess.run
Launches(r) == r.type = "none" \/ r.detail = "spawn"

\* the launch fails always when the binary is not executable, and may fail
\* for want of resources otherwise
SpawnOutcomes == IF bin = "noexec" THEN {FALSE} ELSE {TRUE, FALSE}

\* exit statuses of a failing segmentator and the texts it leaves on stderr
FailureCodes == {1, 2}
Stderrs == {"cannot read ply"}

\* how one invocation of the segmentator may end
BinaryExits(s) ==
    {[returncode |-> c, stderr |-> e, writes |-> {}] : c \in FailureCodes, e \in Stderrs}
    \cup {[returncode |-> 0, stderr |-> "", writes |-> {}]}
    \cup {[returncode |-> 0, stderr |-> "", writes |-> {f}] : f \in BinaryWrites(s, Rich)}

DirAfter(d, b) == IF b.writes = {} THEN d ELSE WriteFile(d, CHOOSE f \in b.writes : TRUE)

\* process_scene from the exit of the segmentator onwards
AfterRun(s, b, listing, k7, fault) ==
    IF b.returncode # 0
    THEN Returned(s, FALSE, "InvocationFailure", b.stderr, NoName, {})
    ELSE ResolveAndCopy(s, listing, k7, fault)

\* ------------------------------------------------------------------- main
\* the directories of input_dir whose name starts with "scene"
Discovered == {e \in entries : e.isdir /\ StartsWithScene(e.name)}

\* faulty variant: the emptiness test is made after the skip-existing filter
ConfigErrorAfterFilter ==
    IF ~input_ok THEN "InputDirMissing"
    ELSE IF bin = "missing" THEN "BinaryMissing"
    ELSE IF bin = "notfile" THEN "BinaryNotFile"
    ELSE IF {e \in Discovered :
                ~(skip_existing /\ SkipFilename(e.name) \in outdir)} = {}
         THEN "EmptyInputSet"
    ELSE "none"

\* the checks that end main with sys.exit(1), in the order main makes them
ConfigError ==
    IF ~input_ok THEN "InputDirMissing"
    ELSE IF bin = "missing" THEN "BinaryMissing"
    ELSE IF bin = "notfile" THEN "BinaryNotFile"
    ELSE IF Discovered = {} THEN "EmptyInputSet"
    ELSE "none"

\* the checks of the arguments and the discovery of the scene directories
MainChecks ==
    /\ pc = "start"
    /\ IF ConfigError # "none"
       THEN /\ pc' = "exit"
            /\ exit_status' = 1
            /\ UNCHANGED scene_dirs
       ELSE /\ \E order \in Listings(Discovered) :
                  scene_dirs' = [i \in 1..Len(order) |-> SceneOf(order[i].name)]
            /\ pc' = "filter"
            /\ UNCHANGED exit_status
    /\ UNCHANGED <<config, dir, outdir, idx, success_count, fail_count, failed_scenes,
                   task, ret, fut, broken, invoked, tally, status, chosen, wrote, run,
                   first, proc>>

\* faulty variant: the skip-existing filter is left out
FilterAndDispatchKeepingAll ==
    /\ pc = "filter"
    /\ LET remaining ==
             scene_dirs
       IN  /\ scene_dirs' = remaining
           /\ task' = [s \in Scenes |->
                         IF \E i \in 1..Len(remaining) : remaining[i] = s
                         THEN "pending" ELSE "none"]
    /\ success_count' = 0
    /\ fail_count' = 0
    /\ failed_scenes' = <<>>
    /\ idx' = 1
    /\ pc' = IF num_workers > 1 THEN "parallel" ELSE "serial"
    /\ UNCHANGED <<config, dir, outdir, exit_status, ret, fut, broken, invoked, tally,
                   status, chosen, wrote, run, first, proc>>

\* the skip-existing filter, the reset of the counters and, with more than
\* one worker, the submission of every task to the pool
FilterAndDispatch ==
    /\ pc = "filter"
    /\ LET remaining ==
             IF skip_existing
             THEN SelectSeq(scene_dirs,
                            LAMBDA s : SkipFilename(SceneName(s)) \notin outdir)
             ELSE scene_dirs
       IN  /\ scene_dirs' = remaining
           /\ task' = [s \in Scenes |->
                         IF \E i \in 1..Len(remaining) : remaining[i] = s
                         THEN "pending" ELSE "none"]
    /\ success_count' = 0
    /\ fail_count' = 0
    /\ failed_scenes' = <<>>
    /\ idx' = 1
    /\ pc' = IF num_workers > 1 THEN "parallel" ELSE "serial"
    /\ UNCHANGED <<config, dir, outdir, exit_status, ret, fut, broken, invoked, tally,
                   status, chosen, wrote, run, first, proc>>

Dispatched == {s \in Scenes : task[s] # "none"}

\* the serial loop's use of a returned tuple
SerialCount(s, o) ==
    /\ success_count' = IF o.ok THEN success_count + 1 ELSE success_count
    /\ fail_count' = IF o.ok THEN fail_count ELSE fail_count + 1
    /\ failed_scenes' = IF o.ok THEN failed_scenes
                        ELSE Append(failed_scenes, <<o.scene, o.kind, o.detail>>)
    /\ tally' = [tally EXCEPT ![s] = @ + 1]
    /\ status' = [status EXCEPT ![s] = [ok |-> o.ok, kind |-> o.kind]]

\* faulty variant: the except branch of the as_completed loop counts nothing
CollectCountDropsException(s, o) ==
    /\ success_count' = IF o.type = "return" /\ o.ok THEN success_count + 1
                        ELSE success_count
    /\ fail_count' = IF o.type = "return" /\ ~o.ok THEN fail_count + 1 ELSE fail_count
    /\ failed_scenes' = IF o.type = "return" /\ ~o.ok
                        THEN Append(failed_scenes, <<o.scene, o.kind, o.detail>>)
                        ELSE failed_scenes
    /\ tally' = [tally EXCEPT ![s] = IF o.type = "return" THEN @ + 1 ELSE @]
    /\ status' = [status EXCEPT ![s] = [ok |-> o.type = "return" /\ o.ok, kind |-> o.kind]]

\* the body of the as_completed loop: future.result() returns or raises
CollectCount(s, o) ==
    /\ success_count' = IF o.type = "return" /\ o.ok THEN success_count + 1
                        ELSE success_count
    /\ fail_count' = IF o.type = "return" /\ o.ok THEN fail_count ELSE fail_count + 1
    /\ failed_scenes' =
          IF o.type = "return"
          THEN IF o.ok THEN failed_scenes
               ELSE Append(failed_scenes, <<o.scene, o.kind, o.detail>>)
          ELSE Append(failed_scenes, <<s, o.kind, o.detail>>)
    /\ tally' = [tally EXCEPT ![s] = @ + 1]
    /\ status' = [status EXCEPT ![s] = [ok |-> o.type = "return" /\ o.ok, kind |-> o.kind]]

\* serial path: process_scene is called for the next scene and runs up to
\* its first return, to the exception that leaves it, or to the launch
SerialStart ==
    /\ pc = "serial"
    /\ idx <= Len(scene_dirs)
    /\ LET s == scene_dirs[idx]
       IN  /\ task[s] = "pending"
           /\ \E launched \in SpawnOutcomes :
                LET r == CheckAndSpawn(s, ply[s], launched)
                IN  /\ invoked' = [invoked EXCEPT ![s] = IF Launches(r) THEN @ + 1 ELSE @]
                    /\ ret' = [ret EXCEPT ![s] = Outcome(r)]
                    /\ \/ /\ r.type = "none"
                          /\ task' = [task EXCEPT ![s] = "running"]
                          /\ UNCHANGED <<pc, idx, exit_status, success_count, fail_count,
                                         failed_scenes, tally, status>>
                       \/ /\ r.type = "raise"
                          /\ task' = [task EXCEPT ![s] = "aborted"]
                          /\ pc' = "traceback"
                          /\ exit_status' = 1
                          /\ UNCHANGED <<idx, success_count, fail_count,
                                         failed_scenes, tally, status>>
                       \/ /\ r.type = "return"
                          /\ SerialCount(s, Outcome(r))
                          /\ task' = [task EXCEPT ![s] = "collected"]
                          /\ idx' = idx + 1
                          /\ UNCHANGED <<pc, exit_status>>
    /\ UNCHANGED <<config, dir, outdir, scene_dirs, fut, broken, chosen, wrote, run,
                   first, proc>>

\* serial path: the segmentator exits, process_scene runs to its return and
\* main counts the tuple
SerialFinish ==
    /\ pc = "serial"
    /\ idx <= Len(scene_dirs)
    /\ LET s == scene_dirs[idx]
       IN  /\ task[s] = "running"
           /\ \E b \in BinaryExits(s) :
                \E listing \in Listings(DirAfter(dir[s], b)), fault \in Faults :
                   \E r \in {AfterRun(s, b, listing, kthresh, fault)} :
                       /\ proc' = [proc EXCEPT ![s] = [returncode |-> b.returncode,
                                                      stderr |-> b.stderr]]
                       /\ dir' = [dir EXCEPT ![s] = DirAfter(dir[s], b)]
                       /\ outdir' = outdir \cup r.wrote
                       /\ chosen' = [chosen EXCEPT ![s] = r.chosen]
                       /\ wrote' = [wrote EXCEPT ![s] = r.wrote]
                       /\ ret' = [ret EXCEPT ![s] = Outcome(r)]
                       /\ SerialCount(s, Outcome(r))
                       /\ task' = [task EXCEPT ![s] = "collected"]
                       /\ idx' = idx + 1
    /\ UNCHANGED <<config, pc, scene_dirs, exit_status, fut, broken, invoked, run,
                   first>>

Busy == {s \in Scenes : task[s] \in {"running", "returning", "hung"}}

\* faulty variant: a submitted task is started whether or not a worker is free
WorkerStartUnbounded(s) ==
    /\ pc = "parallel"
    /\ ~broken
    /\ task[s] = "pending"
    /\ \E launched \in SpawnOutcomes :
         LET r == CheckAndSpawn(s, ply[s], launched)
         IN  /\ invoked' = [invoked EXCEPT ![s] = IF Launches(r) THEN @ + 1 ELSE @]
             /\ ret' = [ret EXCEPT ![s] = Outcome(r)]
             /\ task' = [task EXCEPT ![s] = IF r.type = "none" THEN "running"
                                            ELSE "returning"]
    /\ UNCHANGED <<config, dir, outdir, pc, scene_dirs, idx, success_count, fail_count,
                   failed_scenes, exit_status, fut, broken, tally, status, chosen,
                   wrote, run, first, proc>>

\* parallel path: a free worker takes a submitted task
WorkerStart(s) ==
    /\ pc = "parallel"
    /\ ~broken
    /\ task[s] = "pending"
    /\ Cardinality(Busy) < num_workers
    /\ \E launched \in SpawnOutcomes :
         LET r == CheckAndSpawn(s, ply[s], launched)
         IN  /\ invoked' = [invoked EXCEPT ![s] = IF Launches(r) THEN @ + 1 ELSE @]
             /\ ret' = [ret EXCEPT ![s] = Outcome(r)]
             /\ task' = [task EXCEPT ![s] = IF r.type = "none" THEN "running"
                                            ELSE "returning"]
    /\ UNCHANGED <<config, dir, outdir, pc, scene_dirs, idx, success_count, fail_count,
                   failed_scenes, exit_status, fut, broken, tally, status, chosen,
                   wrote, run, first, proc>>

\* parallel path: the segmentator exits and the worker runs process_scene to
\* its return
WorkerFinish(s) ==
    /\ pc = "parallel"
    /\ ~broken
    /\ task[s] = "running"
    /\ \E b \in BinaryExits(s) :
         \E listing \in Listings(DirAfter(dir[s], b)), fault \in Faults :
            \E r \in {AfterRun(s, b, listing, kthresh, fault)} :
                /\ proc' = [proc EXCEPT ![s] = [returncode |-> b.returncode,
                                               stderr |-> b.stderr]]
                /\ dir' = [dir EXCEPT ![s] = DirAfter(dir[s], b)]
                /\ outdir' = outdir \cup r.wrote
                /\ chosen' = [chosen EXCEPT ![s] = r.chosen]
                /\ wrote' = [wrote EXCEPT ![s] = r.wrote]
                /\ ret' = [ret EXCEPT ![s] = Outcome(r)]
                /\ task' = [task EXCEPT ![s] = "returning"]
    /\ UNCHANGED <<config, pc, scene_dirs, idx, success_count, fail_count,
                   failed_scenes, exit_status, fut, broken, invoked, tally, status, run,
                   first>>

\* faulty variant: a task whose segmentator exited non-zero is queued again
WorkerReturnRetrying(s) ==
    /\ pc = "parallel"
    /\ ~broken
    /\ task[s] = "returning"
    /\ task' = [task EXCEPT ![s] = IF ret[s].kind = "InvocationFailure"
                                   THEN "pending" ELSE "done"]
    /\ fut' = [fut EXCEPT ![s] = IF ret[s].kind = "InvocationFailure"
                                 THEN @ ELSE ret[s]]
    /\ UNCHANGED <<config, dir, outdir, pc, scene_dirs, idx, success_count, fail_count,
                   failed_scenes, exit_status, ret, broken, invoked, tally, status,
                   chosen, wrote, run, first, proc>>

\* parallel path: the worker hands its result to the future
WorkerReturn(s) ==
    /\ pc = "parallel"
    /\ ~broken
    /\ task[s] = "returning"
    /\ task' = [task EXCEPT ![s] = "done"]
    /\ fut' = [fut EXCEPT ![s] = ret[s]]
    /\ UNCHANGED <<config, dir, outdir, pc, scene_dirs, idx, success_count, fail_count,
                   failed_scenes, exit_status, ret, broken, invoked, tally, status,
                   chosen, wrote, run, first, proc>>

\* parallel path: a worker process dies; the executor fails every future
\* that is not done with BrokenProcessPool
WorkerCrash ==
    /\ pc = "parallel"
    /\ ~broken
    /\ \E s \in Scenes : task[s] \in {"pending", "running", "returning", "hung"}
    /\ broken' = TRUE
    /\ task' = [s \in Scenes |->
                  IF task[s] \in {"pending", "running", "returning", "hung"} THEN "done"
                  ELSE task[s]]
    /\ fut' = [s \in Scenes |->
                 IF task[s] \in {"pending", "running", "returning", "hung"}
                 THEN Outcome(Raised(s, "BrokenProcessPool")) ELSE fut[s]]
    /\ UNCHANGED <<config, dir, outdir, pc, scene_dirs, idx, success_count, fail_count,
                   failed_scenes, exit_status, ret, invoked, tally, status, chosen,
                   wrote, run, first, proc>>

\* parallel path: as_completed yields a done future and main counts it
Collect(s) ==
    /\ pc = "parallel"
    /\ task[s] = "done"
    /\ CollectCount(s, fut[s])
    /\ task' = [task EXCEPT ![s] = "collected"]
    /\ UNCHANGED <<config, dir, outdir, pc, scene_dirs, idx, exit_status, ret, fut,
                   broken, invoked, chosen, wrote, run, first, proc>>

\* faulty variant: a batch with failures ends with a non-zero status
SummarizeFailingOnFailures ==
    /\ \/ pc = "serial" /\ idx > Len(scene_dirs)
       \/ pc = "parallel" /\ \A s \in Scenes : task[s] \in {"none", "collected"}
    /\ pc' = "done"
    /\ exit_status' = IF fail_count > 0 THEN 1 ELSE 0
    /\ UNCHANGED <<config, dir, outdir, scene_dirs, idx, success_count, fail_count,
                   failed_scenes, task, ret, fut, broken, invoked, tally, status,
                   chosen, wrote, run, first, proc>>

\* the summary is printed and main returns
Summarize ==
    /\ \/ pc = "serial" /\ idx > Len(scene_dirs)
       \/ pc = "parallel" /\ \A s \in Scenes : task[s] \in {"none", "collected"}
    /\ pc' = "done"
    /\ exit_status' = 0
    /\ UNCHANGED <<config, dir, outdir, scene_dirs, idx, success_count, fail_count,
                   failed_scenes, task, ret, fut, broken, invoked, tally, status,
                   chosen, wrote, run, first, proc>>

Next ==
    \/ MainChecks
    \/ FilterAndDispatch
    \/ SerialStart
    \/ SerialFinish
    \/ \E s \in Scenes : WorkerStart(s)
    \/ \E s \in Scenes : WorkerFinish(s)
    \/ \E s \in Scenes : WorkerReturn(s)
    \/ WorkerCrash
    \/ \E s \in Scenes : Collect(s)
    \/ Summarize

Spec == Init /\ [][Next]_vars

\* ---------------------------------------------------------------- re-run
\* after its summary the batch is started again with the same arguments on
\* the file system the previous run has left
Rerun ==
    /\ pc = "done"
    /\ run < MaxRuns
    /\ run' = run + 1
    /\ first' = status
    /\ pc' = "start"
    /\ scene_dirs' = <<>>
    /\ idx' = 0
    /\ success_count' = 0
    /\ fail_count' = 0
    /\ failed_scenes' = <<>>
    /\ exit_status' = -1
    /\ task' = [s \in Scenes |-> "none"]
    /\ ret' = [s \in Scenes |-> Outcome(NoResult)]
    /\ fut' = [s \in Scenes |-> Outcome(NoResult)]
    /\ broken' = FALSE
    /\ invoked' = [s \in Scenes |-> 0]
    /\ tally' = [s \in Scenes |-> 0]
    /\ status' = [s \in Scenes |-> NoStatus]
    /\ chosen' = [s \in Scenes |-> NoName]
    /\ wrote' = [s \in Scenes |-> {}]
    /\ proc' = [s \in Scenes |-> NoProcess]
    /\ UNCHANGED <<config, dir, outdir>>

\* runs with skip_existing over two scene directories, the first of them on
\* an empty output directory
InitRerun ==
    /\ Init
    /\ skip_existing
    /\ input_ok
    /\ bin = "ok"
    /\ kthresh = 100000
    /\ entries = {SceneEntry(s) : s \in TwoScenes} \cup ExtraEntries
    /\ outdir = {}

NextRerun == Next \/ Rerun

SpecRerun == InitRerun /\ [][NextRerun]_vars

\* ------------------------------------------- an invocation that never exits
\* the segmentator of scene s never exits: subprocess.run has no timeout and
\* blocks for ever
Hang(s) ==
    /\ pc \in {"serial", "parallel"}
    /\ ~broken
    /\ task[s] = "running"
    /\ task' = [task EXCEPT ![s] = "hung"]
    /\ UNCHANGED <<config, dir, outdir, pc, scene_dirs, idx, success_count, fail_count,
                   failed_scenes, exit_status, ret, fut, broken, invoked, tally, status,
                   chosen, wrote, run, first, proc>>

\* batches over two scene directories with an executable segmentator
InitFair ==
    /\ Init
    /\ input_ok
    /\ bin = "ok"
    /\ ~skip_existing
    /\ kthresh = 100000
    /\ entries = {SceneEntry(s) : s \in TwoScenes} \cup ExtraEntries
    /\ outdir = {}

NextFair == Next \/ \E s \in Scenes : Hang(s)

\* main, the workers of the pool and the collection of results always go on,
\* and a segmentator that does not hang exits; no worker has to die and no
\* segmentator has to hang
Fairness ==
    /\ WF_vars(MainChecks)
    /\ WF_vars(FilterAndDispatch)
    /\ WF_vars(SerialStart)
    /\ WF_vars(SerialFinish)
    /\ \A s \in Scenes : WF_vars(WorkerStart(s))
    /\ \A s \in Scenes : WF_vars(WorkerFinish(s))
    /\ \A s \in Scenes : WF_vars(WorkerReturn(s))
    /\ \A s \in Scenes : WF_vars(Collect(s))
    /\ WF_vars(Summarize)

SpecFair == InitFair /\ [][NextFair]_vars /\ Fairness

\* ------------------------------------------------- more tasks than workers
\* batches over three scene directories, the third without its .ply file,
\* with an executable segmentator and an empty output directory
InitPool ==
    /\ Start({Scenes})
    /\ input_ok
    /\ bin = "ok"
    /\ ~skip_existing
    /\ kthresh = 100000
    /\ ply = [s \in Scenes |-> IF s \in TwoScenes THEN "present" ELSE "absent"]
    /\ outdir = {}

SpecPool == InitPool /\ [][Next]_vars

\* ======================================================== properties
AllScenesDispatched == Dispatched = TwoScenes

\* process_scene has returned a tuple for scene s
HasReturned(s) == ret[s].type = "return"

\* the call has got past the selection of seg_file
HasSelected(s) == HasReturned(s) /\ chosen[s] # NoName

\* the candidates of scene s, their names and the names holding kthresh_str
CandidateFiles(s) == {f \in dir[s] : GlobMatch(SceneName(s), f.name)}
MatchingFiles(s) ==
    LET kthresh_str == Format6(kthresh)
    IN  {f \in CandidateFiles(s) : Contains(kthresh_str, f.name)}
ChosenFile(s) == CHOOSE f \in dir[s] : f.name = chosen[s]

\* the literal path <scene_id>_vh_clean_2.0.010000.segs.json
CanonicalPath(s) ==
    SceneName(s) \o <<"_vh_clean_", "2", ".", "0", ".", "0", "1", "0", "0", "0", "0",
                      ".", "segs", ".", "json">>

\* C1: when the batch reaches the summary every dispatched scene has been
\* counted exactly once, no other scene has been counted, and success_count
\* plus fail_count is the number of dispatched scenes, for every worker count,
\* also when a pipeline raises or a worker process dies.
C1_ExactlyOneOutcome ==
    pc = "done" =>
        /\ \A s \in Scenes : tally[s] = (IF s \in Dispatched THEN 1 ELSE 0)
        /\ success_count + fail_count = Cardinality(Dispatched)
        /\ success_count + fail_count = Len(scene_dirs)
        /\ fail_count = Len(failed_scenes)

C1_Witness ==
    /\ pc = "done"
    /\ num_workers > 1
    /\ broken
    /\ AllScenesDispatched
    /\ \E s \in Scenes : ret[s].type = "raise"
    /\ fail_count = 2

\* C2: the status reported for a scene depends only on what its pipeline
\* did, not on the path: when a batch has ended without a worker process
\* dying, every scene whose process_scene call has ended is reported with the
\* status the parallel path gives that result (a returned tuple as it is, an
\* exception as a failure), with one worker as with several.
C2_SerialEqualsParallel ==
    (pc \in {"done", "traceback"} /\ ~broken) =>
        \A s \in Scenes :
            ret[s].type # "none" =>
                status[s] = [ok |-> ret[s].type = "return" /\ ret[s].ok,
                             kind |-> ret[s].kind]

\* C3: an exception raised at any step of one task's pipeline becomes a
\* failure of that task only: it never ends the batch, and the task whose
\* pipeline raised is counted as a failure when the batch reaches the summary.
C3_FailureIsolation ==
    /\ pc # "traceback"
    /\ pc = "done" =>
          \A s \in Scenes :
              (ret[s].type = "raise" \/ ret[s].kind = "UnexpectedException") =>
                  (tally[s] = 1 /\ ~status[s].ok)

\* C4: a segmentator that cannot be launched aborts the batch: the failed
\* launch is never recorded as a failure of the task, and the batch does not
\* go on to its summary.
C4_SpawnFailureAborts ==
    \A s \in Scenes :
        ret[s].detail = "spawn" =>
            /\ status[s] = NoStatus
            /\ fut[s].type # "return"
            /\ pc # "done"

\* C5: for a dispatched scene without its .ply file process_scene returns
\* the failure MissingInput, and subprocess.run is never called for the scene.
C5_MissingInput ==
    \A s \in Dispatched :
        ply[s] = "absent" =>
            /\ invoked[s] = 0
            /\ task[s] \notin {"running"}
            /\ ret[s].type # "none" =>
                  (HasReturned(s) /\ ~ret[s].ok /\ ret[s].kind = "MissingInput")
            /\ (task[s] = "collected" /\ ~broken) =>
                  status[s] = [ok |-> FALSE, kind |-> "MissingInput"]

C5_Witness ==
    \E s \in Dispatched :
        /\ ply[s] = "absent"
        /\ task[s] = "collected"
        /\ status[s].kind = "MissingInput"
        /\ \E t \in Dispatched : invoked[t] > 0

\* C6 (as stated): with skip_existing, the second run over an unchanged
\* output directory calls the segmentator for no scene, whatever the first
\* run's outcomes were.
C6_SecondRunInvokesNothing ==
    run >= 2 => \A s \in Scenes : invoked[s] = 0

\* C6 (amended): with skip_existing, a run that follows another over an
\* unchanged output directory neither dispatches nor invokes the segmentator
\* for a scene that the previous run counted as a success.
C6_NoInvocationAfterSuccess ==
    run >= 2 =>
        \A s \in Scenes :
            first[s].ok =>
                /\ invoked[s] = 0
                /\ (pc \notin {"start", "filter"} => task[s] = "none")
                /\ OutputFilename(SceneName(s)) \in outdir

C6_Witness ==
    /\ run = 2
    /\ pc = "done"
    /\ \E s, t \in Scenes :
          /\ first[s].ok /\ invoked[s] = 0 /\ task[s] = "none"
          /\ ~first[t].ok /\ first[t] # NoStatus /\ invoked[t] = 1

\* C7: whenever a candidate name holds the six-decimal threshold string, the
\* selected seg_file is a candidate whose name holds it, whatever the
\* modification times are.
C7_ExactMatchPreferred ==
    \A s \in Scenes :
        (HasSelected(s) /\ MatchingFiles(s) # {}) =>
            /\ ChosenFile(s) \in MatchingFiles(s)
            /\ Contains(Format6(kthresh), chosen[s])

\* threshold 0.01, candidates ...2.0.005000.segs.json (newer) and
\* ...2.0.010000.segs.json (older): the latter is selected
C7_Witness ==
    /\ kthresh = 100000
    /\ HasSelected(1)
    /\ {f.name : f \in CandidateFiles(1)} =
          { CandName(1, <<"0", ".", "0", "0", "5", "0", "0", "0">>),
            CandName(1, <<"0", ".", "0", "1", "0", "0", "0", "0">>) }
    /\ chosen[1] = CandName(1, <<"0", ".", "0", "1", "0", "0", "0", "0">>)
    /\ \E f \in CandidateFiles(1) : f.mtime > ChosenFile(1).mtime

\* the call has got past the timestamp reads of the fallback
PastSelection(s) ==
    /\ HasReturned(s)
    /\ ret[s].kind \notin {"MissingInput", "InvocationFailure"}
    /\ ret[s].detail \notin {"spawn", "glob", "stat"}

\* C8: with candidates of which none holds the threshold string, exactly one
\* candidate is selected and it has the greatest modification time of all
\* candidates, also when several candidates share that time.
C8_FallbackLatest ==
    \A s \in Scenes :
        (PastSelection(s) /\ CandidateFiles(s) # {} /\ MatchingFiles(s) = {}) =>
            /\ chosen[s] # NoName
            /\ Cardinality({f \in CandidateFiles(s) : f.name = chosen[s]}) = 1
            /\ \A f \in CandidateFiles(s) : f.mtime <= ChosenFile(s).mtime

C8_Witness ==
    /\ PastSelection(1)
    /\ MatchingFiles(1) = {}
    /\ Cardinality(CandidateFiles(1)) = 2
    /\ \A f, g \in CandidateFiles(1) : f.mtime = g.mtime
    /\ chosen[1] # NoName

\* C9: a selected candidate that parses but has no field segIndices gives the
\* failure InvalidOutputFormat and the task writes nothing under output_dir;
\* no candidate at all gives NoOutputGenerated and nothing is written.
C9_InvalidFormatWritesNothing ==
    \A s \in Scenes :
        /\ (HasSelected(s) /\ ret[s].detail # "parse" /\ ChosenFile(s).doc # "ObjWith") =>
              (ret[s].kind = "InvalidOutputFormat" /\ wrote[s] = {})
        /\ (PastSelection(s) /\ CandidateFiles(s) = {}) =>
              (ret[s].kind = "NoOutputGenerated" /\ wrote[s] = {})

\* C10: for every threshold, a task that returns success has written exactly
\* <scene_id>_vh_clean_2.0.010000.segs.json under output_dir, which is the
\* name the skip-existing filter tests, and two scenes never share that name.
C10_CanonicalName ==
    /\ \A s \in Scenes :
          (HasReturned(s) /\ ret[s].ok) =>
              LET canonical == CanonicalPath(s)
              IN  /\ wrote[s] = {canonical}
                  /\ canonical \in outdir
                  /\ SkipFilename(SceneName(s)) = canonical
    /\ Cardinality({OutputFilename(SceneName(s)) : s \in Scenes}) = Cardinality(Scenes)

C10_Witness ==
    /\ kthresh = 19999996
    /\ AllScenesDispatched
    /\ \A s \in TwoScenes : HasReturned(s) /\ ret[s].ok /\ wrote[s] = {CanonicalPath(s)}

\* C11: with a missing input directory, a missing segmentator, a segmentator
\* that is present but not executable, or no scene directory, main ends with
\* a non-zero status and neither dispatches a task nor calls subprocess.run.
C11_FatalConfigurationAborts ==
    (~input_ok \/ bin \in {"missing", "notfile", "noexec"} \/ Discovered = {}) =>
        /\ pc \in {"start", "exit"}
        /\ pc = "exit" => exit_status # 0
        /\ Dispatched = {}
        /\ \A s \in Scenes : invoked[s] = 0

\* main has got past the checks of input_dir and of the segmentator path
DiscoveryReached == input_ok /\ bin \notin {"missing", "notfile"}

\* C12: main ends with the error for an empty input set exactly when the
\* discovery is reached and finds no scene directory; when it finds some and
\* the skip-existing filter removes them all, main calls the segmentator for
\* no scene, counts no success and no failure, and ends with status 0.
C12_EmptyInputSet ==
    /\ (pc # "start" /\ DiscoveryReached) => ((pc = "exit") <=> (Discovered = {}))
    /\ pc = "exit" => exit_status = 1
    /\ (DiscoveryReached /\ Discovered # {} /\ pc \notin {"start", "filter"}
          /\ scene_dirs = <<>>) =>
          /\ pc \in {"serial", "parallel", "done"}
          /\ Dispatched = {}
          /\ \A s \in Scenes : invoked[s] = 0 /\ tally[s] = 0
          /\ success_count = 0 /\ fail_count = 0 /\ failed_scenes = <<>>
          /\ pc = "done" => exit_status = 0

C12_Witness ==
    /\ pc = "done"
    /\ skip_existing
    /\ Cardinality(Discovered) = 2
    /\ scene_dirs = <<>>
    /\ exit_status = 0
    /\ success_count = 0 /\ fail_count = 0

\* the segmentator of scene s has ended with a non-zero exit status
ExitedNonZero(s) == proc[s].returncode > 0

\* C13: after a non-zero exit of the segmentator process_scene returns the
\* failure InvocationFailure, selects no candidate and writes nothing; the
\* returned failure carries the captured stderr and the exit status, so two
\* scenes whose segmentators left different exit statuses are never handed
\* back the same failure.
C13_InvocationFailure ==
    /\ \A s \in Scenes :
          ExitedNonZero(s) =>
              /\ HasReturned(s) /\ ~ret[s].ok
              /\ ret[s].kind = "InvocationFailure"
              /\ ret[s].detail = proc[s].stderr
              /\ chosen[s] = NoName /\ wrote[s] = {}
    /\ \A s, t \in Scenes :
          (ExitedNonZero(s) /\ ExitedNonZero(t)
              /\ proc[s].returncode # proc[t].returncode) =>
              <<ret[s].kind, ret[s].detail>> # <<ret[t].kind, ret[t].detail>>

\* what the batch learns of the task of scene s: the tuple process_scene
\* returned on the serial path, the result of its future on the parallel path
TaskOutcome(s) == IF num_workers > 1 THEN fut[s] ELSE ret[s]

IsFailure(o) == o.type = "raise" \/ (o.type = "return" /\ ~o.ok)

LedgerEntries(s) == {i \in 1..Len(failed_scenes) : failed_scenes[i][1] = s}

\* C14: a batch that reaches its summary ends with status 0 also when tasks
\* have failed, and failed_scenes then holds exactly one entry, the scene
\* with its reason, for each task that failed and none for a task that
\* succeeded or a scene that was not dispatched, with one worker as with
\* several and in every order of completion.
C14_FailureLedger ==
    pc = "done" =>
        /\ exit_status = 0
        /\ \A s \in Scenes :
              IF s \in Dispatched /\ IsFailure(TaskOutcome(s))
              THEN /\ Cardinality(LedgerEntries(s)) = 1
                   /\ \A i \in LedgerEntries(s) :
                         failed_scenes[i] =
                            <<s, TaskOutcome(s).kind, TaskOutcome(s).detail>>
              ELSE LedgerEntries(s) = {}
        /\ fail_count = Len(failed_scenes)

\* two workers, one task fails and the other succeeds
C14_Witness ==
    /\ pc = "done"
    /\ exit_status = 0
    /\ num_workers > 1
    /\ AllScenesDispatched
    /\ IsFailure(TaskOutcome(2)) /\ ~IsFailure(TaskOutcome(1))
    /\ failed_scenes = <<<<2, "InvocationFailure", "cannot read ply">>>>
    /\ success_count = 1

\* the state of the task of scene s: a task is Running from the call of
\* process_scene until its result is at hand (a serial task whose exception
\* ended main stays Running), and Succeeded or Failed from then on
TaskState(s) ==
    IF task[s] = "none" THEN "NotDispatched"
    ELSE IF task[s] = "pending" THEN "Pending"
    ELSE IF task[s] \in {"running", "hung", "returning", "aborted"} THEN "Running"
    ELSE IF IsFailure(TaskOutcome(s)) THEN "Failed"
    ELSE "Succeeded"

\* process_scene is called for scene s in this step
Called(s) == ret[s].type = "none" /\ (ret'[s].type # "none" \/ invoked'[s] > invoked[s])

\* the steps of the task of scene s along Pending -> Running -> terminal; a
\* step in which process_scene is called and returns at once passes Running
StepAlongPath(s) ==
    \/ TaskState(s)' = TaskState(s)
    \/ TaskState(s) = "NotDispatched" /\ TaskState(s)' = "Pending"
    \/ TaskState(s) = "Pending" /\ TaskState(s)' = "Running" /\ Called(s)
    \/ TaskState(s) = "Pending" /\ TaskState(s)' \in {"Succeeded", "Failed"} /\ Called(s)
    \/ TaskState(s) = "Running" /\ TaskState(s)' \in {"Succeeded", "Failed"}

\* a task that was never started fails with the pool when a worker dies
FailsWithPool(s) ==
    /\ TaskState(s) = "Pending" /\ TaskState(s)' = "Failed"
    /\ ~broken /\ broken'
    /\ fut'[s].kind = "BrokenProcessPool"
    /\ UNCHANGED <<ret, invoked>>

RunningTasks == {s \in Scenes : TaskState(s) = "Running"}

Started(s) == TaskState(s) \in {"Running", "Succeeded", "Failed"}

\* C16: never more tasks are Running than there are workers; with one worker
\* the tasks are started in the order of scene_dirs, each only when every
\* task before it is Succeeded or Failed.
C16_BoundedWorkers ==
    /\ Cardinality(RunningTasks) <= num_workers
    /\ num_workers = 1 =>
          \A i, j \in 1..Len(scene_dirs) :
              (i < j /\ Started(scene_dirs[j])) =>
                  TaskState(scene_dirs[i]) \in {"Succeeded", "Failed"}

\* two workers, both busy, and a third task waiting
C16_Witness ==
    /\ num_workers = 2
    /\ Cardinality(RunningTasks) = 2
    /\ \A s \in RunningTasks : invoked[s] = 1 /\ task[s] = "running"
    /\ \E s \in Scenes : TaskState(s) = "Pending"

\* C17: the selected seg_file depends only on the set of candidates and on
\* the threshold: in whatever order the listing returns that set, the same
\* candidate is selected, also when several names hold the threshold string
\* or several candidates share the latest modification time.
C17_SelectionIgnoresListingOrder ==
    \A s \in Scenes :
        HasSelected(s) =>
            \A q \in Listings(CandidateFiles(s)) :
                SelectCandidate(q, kthresh).name = chosen[s]

\* C18: with skip_existing, the filter drops exactly the discovered scenes
\* whose <scene_id>_vh_clean_2.0.010000.segs.json lies in output_dir when the
\* filter runs and dispatches every other discovered scene; for a dropped
\* scene the segmentator is never called, nothing is written and neither a
\* success nor a failure is counted.
C18_SkipExisting ==
    [][\A s \in Scenes :
          /\ (pc = "filter" /\ skip_existing /\ SceneEntry(s) \in Discovered) =>
                (IF CanonicalPath(s) \in outdir
                 THEN task'[s] = "none" ELSE task'[s] = "pending")
          /\ (pc \notin {"start", "filter"} /\ skip_existing /\ task[s] = "none") =>
                /\ task'[s] = "none"
                /\ invoked'[s] = 0 /\ wrote'[s] = {}
                /\ tally'[s] = 0 /\ status'[s] = NoStatus
                /\ \A i \in 1..Len(failed_scenes') : failed_scenes'[i][1] # s]_vars

C18_Witness ==
    /\ pc = "done"
    /\ skip_existing
    /\ \E s, t \in Scenes :
          /\ {SceneEntry(s), SceneEntry(t)} \subseteq Discovered
          /\ task[s] = "none" /\ CanonicalPath(s) \in outdir
          /\ invoked[s] = 0 /\ tally[s] = 0 /\ wrote[s] = {}
          /\ task[t] = "collected" /\ invoked[t] = 1 /\ tally[t] = 1
    /\ success_count + fail_count = 1

\* C19: the selected candidate stays in the scene directory (it is copied,
\* not moved); a task that returns success has written exactly its
\* <scene_id>_vh_clean_2.0.010000.segs.json under output_dir, and a task that
\* returns a failure has written nothing there.
C19_WritesOnlyOnSuccess ==
    \A s \in Scenes :
        /\ chosen[s] # NoName => \E f \in dir[s] : f.name = chosen[s]
        /\ HasReturned(s) =>
              /\ wrote[s] \subseteq outdir
              /\ wrote[s] = IF ret[s].ok THEN {CanonicalPath(s)} ELSE {}

SomeHung == \E s \in Scenes : task[s] = "hung"

\* C20: with fair scheduling, every dispatched task becomes Succeeded or
\* Failed and main reaches its summary unless a segmentator never exits, with
\* one worker as with several; and once a segmentator never exits, its task
\* stays Running and main never reaches the summary.
C20_Termination ==
    /\ \A s \in Scenes :
          (task[s] = "pending") ~> (TaskState(s) \in {"Succeeded", "Failed"} \/ SomeHung)
    /\ (pc \in {"serial", "parallel"}) ~> (pc = "done" \/ SomeHung)
    /\ [][\A s \in Scenes :
            task[s] = "hung" => (task'[s] = "hung" /\ pc' # "done")]_vars

====
